---- MODULE Spec2Model ----
(***************************************************************************)
(* Model of the PDF extraction / workflow extraction / workflow analysis   *)
(* scripts:                                                                *)
(*   gpt_process_pdf_extract_workflow.py  (cloud-assistant adapter,        *)
(*                                         workflow extractor, batch driver)*)
(*   pdf_content_extraction_grobid.py     (self-hosted service batch)      *)
(*   workflow_analysis.py                 (workflow classifier)            *)
(* Every remote call is one step whose outcome is chosen by the            *)
(* environment; the code between two remote calls belongs to the step of   *)
(* the call it follows.                                                    *)
(***************************************************************************)
EXTENDS Integers, Sequences, FiniteSets, TLC

VARIABLES
    program,            \* entry point being run
    pc,                 \* position of the running program
    \* ---- extract_workflow_from_full_text
    full_text,          \* argument full_text (a JSON value)
    max_retries,        \* argument max_retries
    retry_delay,        \* argument retry_delay
    attempt,            \* loop variable attempt
    ext_log,            \* service calls and sleeps made by the extractor, in order
    workflow_result,    \* value returned by the extractor / built by the pipeline
    \* ---- extract_pdf_content
    remote_files,       \* file ids existing in the hosted file store
    remote_assistants,  \* assistant ids existing at the service
    file,               \* local `file` (0 = unbound)
    assistant,          \* local `assistant` (0 = unbound)
    result,             \* local `result` / the record the adapter returns
    \* ---- batch drivers
    pdf_paths,          \* number of selected input files (files are 1..pdf_paths)
    i,                  \* number of files whose loop iteration has started
    results,            \* success list
    failed,             \* failure list
    sleeps,             \* inter-item sleeps, as the index of the item they follow
    out_csv,            \* <name>.csv
    out_workflows,      \* <name>_workflows.json
    out_failed,         \* <name>_failed.csv
    error_records,      \* records carrying an error field handed to the driver so far
    obtained,           \* the workflow_result of each success-list entry, in list order
    \* ---- pdf_content_extraction_grobid.main
    use_grobid,         \* local use_grobid
    probe_calls,        \* GET /api/isalive requests issued
    grobid_calls,       \* POST /api/processFulltextDocument requests issued
    probe_status,       \* how the probe ended: "none", "200", "non200", "raised"
    \* ---- analyze_workflow_with_gpt
    cls_calls,          \* requests issued by the classifier
    cls_outcome,        \* what the service did with the classifier's request
    cls_result,         \* record returned by the classifier
    workflows           \* analyze_workflows_from_json: the list loaded from the JSON file

vars == <<program, pc, full_text, max_retries, retry_delay, attempt, ext_log,
          workflow_result, remote_files, remote_assistants, file, assistant,
          result, pdf_paths, i, results, failed, sleeps, obtained, out_csv,
          out_workflows, out_failed, error_records, use_grobid, probe_calls,
          grobid_calls, probe_status, cls_calls, cls_outcome, cls_result,
          workflows>>

extVars == <<full_text, max_retries, retry_delay, attempt, ext_log, workflow_result>>
adapterVars == <<remote_files, remote_assistants, file, assistant, result>>
batchVars == <<pdf_paths, i, results, failed, sleeps, obtained, out_csv, out_workflows, out_failed,
               error_records>>
grobidVars == <<use_grobid, probe_calls, grobid_calls, probe_status>>
clsVars == <<cls_calls, cls_outcome, cls_result, workflows>>

----------------------------------------------------------------------------
(* Bounds *)

MaxRetriesArg == 3      \* max_retries arguments explored: 0..MaxRetriesArg
MaxFiles == 2           \* input files per batch: 0..MaxFiles
MaxGrobidFiles == 3     \* input files of the self-hosted batch: 0..MaxGrobidFiles
MaxWorkflows == 2       \* entries of the analysed JSON file: 0..MaxWorkflows
MaxLayoutFiles == 3     \* input files of the layout-parser batch: 0..MaxLayoutFiles

(* Program constants *)

DefaultMaxRetries == 3
DefaultRetryDelay == 5
InterItemSleep == 1

----------------------------------------------------------------------------
(* JSON values *)

JStr(s) == [t |-> "str", s |-> s]
JNum(n) == [t |-> "num", n |-> n]
JNull == [t |-> "null"]
JArr(xs) == [t |-> "array", items |-> xs]
JObj(f) == [t |-> "object", obj |-> f]

\* Python truthiness of a JSON value, as used by `if not full_text`
Truthy(v) ==
    CASE v.t = "str" -> v.s # ""
      [] v.t = "num" -> v.n # 0
      [] v.t = "null" -> FALSE
      [] v.t = "array" -> v.items # <<>>
      [] v.t = "object" -> DOMAIN v.obj # {}

NoValue == [t |-> "None"]     \* Python None as a function result

----------------------------------------------------------------------------
(* WorkflowDescription: the response_format schema *)

WorkflowStep(n) ==
    [step_number |-> n, step_name |-> "step", description |-> "d",
     category |-> "c", tools_software |-> <<"tool">>, databases_apis |-> <<>>,
     inputs |-> <<"in1", "in2">>, outputs |-> <<"out">>,
     is_explicit_in_paper |-> TRUE]

ServiceNote == [text |-> "as written by the service", attempts |-> 0, error |-> ""]

Workflow(nums) ==
    [paper_has_untargeted_metabolomics |-> nums # <<>>,
     workflow_steps |-> [k \in 1..Len(nums) |-> WorkflowStep(nums[k])],
     unspecified_or_omitted_steps |-> <<>>,
     notes_on_ambiguity |-> ServiceNote]

\* step_number sequences the service may answer with: the schema only asks
\* for integers
StepNumberings == {<<>>, <<1, 2>>, <<2, 1>>, <<1, 1>>}

\* what client.chat.completions.create followed by json.loads can do
ServiceOutcomes ==
    {[kind |-> "request_error", e |-> "APIError"],
     [kind |-> "parse_error", e |-> "JSONDecodeError"]}
    \cup {[kind |-> "ok", parsed |-> Workflow(nums)] : nums \in StepNumberings}

\* the payload returned when attempt == max_retries
ExhaustedSentinel(mr, e) ==
    [paper_has_untargeted_metabolomics |-> FALSE,
     workflow_steps |-> <<>>,
     unspecified_or_omitted_steps |-> <<>>,
     notes_on_ambiguity |->
        [text |-> "Extraction failed after {max_retries} attempts: {e}",
         attempts |-> mr, error |-> e]]

\* the payload built by process_pdf_with_workflow when full_text is falsy
NoFullTextSentinel ==
    [paper_has_untargeted_metabolomics |-> FALSE,
     workflow_steps |-> <<>>,
     unspecified_or_omitted_steps |-> <<>>,
     notes_on_ambiguity |->
        [text |-> "No full text extracted from PDF.", attempts |-> 0, error |-> ""]]

\* entries of ext_log
CallEvent(a, ok, resp) == [ev |-> "call", attempt |-> a, ok |-> ok, d |-> 0, resp |-> resp]
SleepEvent(a, d) == [ev |-> "sleep", attempt |-> a, ok |-> FALSE, d |-> d, resp |-> NoValue]

----------------------------------------------------------------------------
(* extract_workflow_from_full_text *)

\* where control goes when the extractor returns
AfterExtract == IF program = "extract" THEN "done" ELSE "combine"

\* lines 211-217: build user_prompt (full_text.strip()), enter the for loop
ExtBuildPrompt ==
    /\ pc = "ext_prompt"
    /\ IF full_text.t # "str"
       THEN \* AttributeError outside the try: nothing catches it
            /\ pc' = "crashed"
            /\ UNCHANGED <<attempt, workflow_result>>
       ELSE IF max_retries < 1
       THEN \* range(1, max_retries + 1) is empty: the function falls off its end
            /\ pc' = AfterExtract
            /\ workflow_result' = NoValue
            /\ UNCHANGED attempt
       ELSE /\ pc' = "ext_call"
            /\ attempt' = 1
            /\ UNCHANGED workflow_result
    /\ UNCHANGED <<program, full_text, max_retries, retry_delay, ext_log>>
    /\ UNCHANGED <<adapterVars, batchVars, grobidVars, clsVars>>

\* ExtCallOk with the parsed steps handed back in reverse order
ExtCallOk_ReordersSteps ==
    /\ pc = "ext_call"
    /\ \E o \in ServiceOutcomes :
          /\ o.kind = "ok"
          /\ workflow_result' =
                [o.parsed EXCEPT !.workflow_steps =
                    [k \in 1..Len(o.parsed.workflow_steps) |->
                        o.parsed.workflow_steps[Len(o.parsed.workflow_steps) + 1 - k]]]
          /\ ext_log' = Append(ext_log, CallEvent(attempt, TRUE, o.parsed))
    /\ pc' = AfterExtract
    /\ UNCHANGED <<program, full_text, max_retries, retry_delay, attempt>>
    /\ UNCHANGED <<adapterVars, batchVars, grobidVars, clsVars>>

\* lines 219-234: the request and the parse succeed
ExtCallOk ==
    /\ pc = "ext_call"
    /\ \E o \in ServiceOutcomes :
          /\ o.kind = "ok"
          /\ workflow_result' = o.parsed
          /\ ext_log' = Append(ext_log, CallEvent(attempt, TRUE, o.parsed))
    /\ pc' = AfterExtract
    /\ UNCHANGED <<program, full_text, max_retries, retry_delay, attempt>>
    /\ UNCHANGED <<adapterVars, batchVars, grobidVars, clsVars>>

\* ExtCallFail giving up one attempt early (attempt == max_retries - 1)
ExtCallFail_GivesUpEarly ==
    /\ pc = "ext_call"
    /\ \E o \in ServiceOutcomes :
          /\ o.kind # "ok"
          /\ IF attempt >= max_retries - 1
             THEN /\ workflow_result' = ExhaustedSentinel(max_retries, o.e)
                  /\ pc' = AfterExtract
             ELSE /\ pc' = "ext_sleep"
                  /\ UNCHANGED workflow_result
    /\ ext_log' = Append(ext_log, CallEvent(attempt, FALSE, NoValue))
    /\ UNCHANGED <<program, full_text, max_retries, retry_delay, attempt>>
    /\ UNCHANGED <<adapterVars, batchVars, grobidVars, clsVars>>

\* lines 219-245: the request or the parse raises
ExtCallFail ==
    /\ pc = "ext_call"
    /\ \E o \in ServiceOutcomes :
          /\ o.kind # "ok"
          /\ IF attempt = max_retries
             THEN /\ workflow_result' = ExhaustedSentinel(max_retries, o.e)
                  /\ pc' = AfterExtract
             ELSE /\ pc' = "ext_sleep"
                  /\ UNCHANGED workflow_result
    /\ ext_log' = Append(ext_log, CallEvent(attempt, FALSE, NoValue))
    /\ UNCHANGED <<program, full_text, max_retries, retry_delay, attempt>>
    /\ UNCHANGED <<adapterVars, batchVars, grobidVars, clsVars>>

\* ExtSleep that pauses twice before the next attempt
ExtSleep_SleepsTwice ==
    /\ pc = "ext_sleep"
    /\ ext_log' = Append(Append(ext_log, SleepEvent(attempt, retry_delay)),
                         SleepEvent(attempt, retry_delay))
    /\ attempt' = attempt + 1
    /\ pc' = "ext_call"
    /\ UNCHANGED <<program, full_text, max_retries, retry_delay, workflow_result>>
    /\ UNCHANGED <<adapterVars, batchVars, grobidVars, clsVars>>

\* line 246 and the next iteration of line 217
ExtSleep ==
    /\ pc = "ext_sleep"
    /\ ext_log' = Append(ext_log, SleepEvent(attempt, retry_delay))
    /\ attempt' = attempt + 1
    /\ pc' = "ext_call"
    /\ UNCHANGED <<program, full_text, max_retries, retry_delay, workflow_result>>
    /\ UNCHANGED <<adapterVars, batchVars, grobidVars, clsVars>>

----------------------------------------------------------------------------
(* json.dumps / json.loads of a WorkflowDescription *)

\* JSON text is modelled by its syntax: an object is the sequence of its
\* members in written order, an array the sequence of its elements.
\* DumpStrList writing the elements last to first
DumpStrList_Reversed(xs) ==
    <<"array", [k \in 1..Len(xs) |-> <<"string", xs[Len(xs) + 1 - k]>>]>>

DumpStrList(xs) == <<"array", [k \in 1..Len(xs) |-> <<"string", xs[k]>>]>>
DumpBool(b) == <<IF b THEN "true" ELSE "false">>

DumpStep(st) ==
    <<"object",
      << <<"step_number", <<"number", st.step_number>> >>,
         <<"step_name", <<"string", st.step_name>> >>,
         <<"description", <<"string", st.description>> >>,
         <<"category", <<"string", st.category>> >>,
         <<"tools_software", DumpStrList(st.tools_software)>>,
         <<"databases_apis", DumpStrList(st.databases_apis)>>,
         <<"inputs", DumpStrList(st.inputs)>>,
         <<"outputs", DumpStrList(st.outputs)>>,
         <<"is_explicit_in_paper", DumpBool(st.is_explicit_in_paper)>> >> >>

\* json.dumps(workflow_result, ensure_ascii=False)
json_dumps(w) ==
    IF w = NoValue THEN <<"null">>
    ELSE
    <<"object",
      << <<"paper_has_untargeted_metabolomics",
           DumpBool(w.paper_has_untargeted_metabolomics)>>,
         <<"workflow_steps",
           <<"array", [k \in 1..Len(w.workflow_steps) |-> DumpStep(w.workflow_steps[k])]>> >>,
         <<"unspecified_or_omitted_steps", DumpStrList(w.unspecified_or_omitted_steps)>>,
         <<"notes_on_ambiguity", <<"string", w.notes_on_ambiguity>> >> >> >>

\* value of member `key` of an object text; the last member of that name wins
Member(obj, key) ==
    LET ms == obj[2]
        at == {k \in 1..Len(ms) : ms[k][1] = key}
        last == CHOOSE k \in at : \A j \in at : j <= k
    IN  ms[last][2]

LoadStrList(t) == [k \in 1..Len(t[2]) |-> t[2][k][2]]
LoadBool(t) == t[1] = "true"

LoadStep(t) ==
    [step_number |-> Member(t, "step_number")[2],
     step_name |-> Member(t, "step_name")[2],
     description |-> Member(t, "description")[2],
     category |-> Member(t, "category")[2],
     tools_software |-> LoadStrList(Member(t, "tools_software")),
     databases_apis |-> LoadStrList(Member(t, "databases_apis")),
     inputs |-> LoadStrList(Member(t, "inputs")),
     outputs |-> LoadStrList(Member(t, "outputs")),
     is_explicit_in_paper |-> LoadBool(Member(t, "is_explicit_in_paper"))]

\* json.loads(r['workflow_json'])
json_loads(t) ==
    IF t[1] = "null" THEN NoValue
    ELSE
    [paper_has_untargeted_metabolomics |->
        LoadBool(Member(t, "paper_has_untargeted_metabolomics")),
     workflow_steps |->
        LET a == Member(t, "workflow_steps")[2]
        IN  [k \in 1..Len(a) |-> LoadStep(a[k])],
     unspecified_or_omitted_steps |->
        LoadStrList(Member(t, "unspecified_or_omitted_steps")),
     notes_on_ambiguity |-> Member(t, "notes_on_ambiguity")[2]]

----------------------------------------------------------------------------
(* ExtractionRecord *)

\* pdf_path.name of the k-th selected file
FileName(k) == "paper" \o ToString(k) \o ".pdf"

\* {'filename': pdf_path.name, 'error': str(e)}
ErrorRecord(k, e) == [filename |-> JStr(FileName(k)), error |-> JStr(e)]

ContentKeys == {"title", "authors", "abstract", "full_text",
                "figure_captions", "table_captions"}

\* the record built when the response is not valid JSON
FallbackRecord(raw) ==
    [title |-> JStr(""), authors |-> JStr(""), abstract |-> JStr(""),
     full_text |-> JStr(raw), figure_captions |-> JStr(""),
     table_captions |-> JStr("")]

FullObject(ft) ==
    [title |-> JStr("T"), authors |-> JStr("A; B"), abstract |-> JStr("abs"),
     full_text |-> ft, figure_captions |-> JStr("f"), table_captions |-> JStr("t")]

\* messages.data[0].content[0].text.value: free text produced by the
\* assistant (no output schema is enforced on this call).  `json` is what
\* json.loads makes of it.
AssistantResponses ==
    {[raw |-> "prose, not JSON", valid |-> FALSE, json |-> JNull],
     [raw |-> "{six keys}", valid |-> TRUE, json |-> JObj(FullObject(JStr("body text")))],
     [raw |-> "{six keys, empty text}", valid |-> TRUE, json |-> JObj(FullObject(JStr("")))],
     [raw |-> "{title only}", valid |-> TRUE, json |-> JObj([title |-> JStr("T")])],
     [raw |-> "{error and content}", valid |-> TRUE,
      json |-> JObj([error |-> JStr("could not read the file"), title |-> JStr("T"),
                     full_text |-> JStr("body text")])],
     [raw |-> "{full_text is a list}", valid |-> TRUE,
      json |-> JObj(FullObject(JArr(<<"p1", "p2">>)))],
     [raw |-> "[a list]", valid |-> TRUE, json |-> JArr(<<"x">>)]}

\* terminal statuses of client.beta.threads.runs.create_and_poll
RunStatuses == {"completed", "failed", "expired"}

----------------------------------------------------------------------------
(* extract_pdf_content *)

\* the except clause of lines 102-104: the adapter returns an error record
AdapterRaise(e) ==
    /\ result' = ErrorRecord(i, e)
    /\ error_records' = error_records + 1
    /\ pc' = "pdf_content"

\* the driver state the adapter never touches
batchRest == <<pdf_paths, i, results, failed, sleeps, obtained, out_csv, out_workflows, out_failed>>

\* lines 21-25: client.files.create
Upload ==
    /\ pc = "upload"
    /\ \E ok \in BOOLEAN :
          IF ok
          THEN /\ remote_files' = remote_files \cup {i}
               /\ file' = i
               /\ pc' = "create_assistant"
               /\ UNCHANGED <<result, error_records>>
          ELSE /\ AdapterRaise("upload failed")
               /\ UNCHANGED <<remote_files, file>>
    /\ UNCHANGED <<program, remote_assistants, assistant>>
    /\ UNCHANGED <<extVars, batchRest, grobidVars, clsVars>>

\* lines 44-49: client.beta.assistants.create
CreateAssistant ==
    /\ pc = "create_assistant"
    /\ \E ok \in BOOLEAN :
          IF ok
          THEN /\ remote_assistants' = remote_assistants \cup {i}
               /\ assistant' = i
               /\ pc' = "create_thread"
               /\ UNCHANGED <<result, error_records>>
          ELSE /\ AdapterRaise("assistant creation failed")
               /\ UNCHANGED <<remote_assistants, assistant>>
    /\ UNCHANGED <<program, remote_files, file>>
    /\ UNCHANGED <<extVars, batchRest, grobidVars, clsVars>>

\* lines 52-65: client.beta.threads.create
CreateThread ==
    /\ pc = "create_thread"
    /\ \E ok \in BOOLEAN :
          IF ok
          THEN /\ pc' = "run"
               /\ UNCHANGED <<result, error_records>>
          ELSE AdapterRaise("thread creation failed")
    /\ UNCHANGED <<program, remote_files, remote_assistants, file, assistant>>
    /\ UNCHANGED <<extVars, batchRest, grobidVars, clsVars>>

\* lines 68-74, 93-94: create_and_poll and the test of run.status
Run ==
    /\ pc = "run"
    /\ \/ \E status \in RunStatuses :
             IF status = "completed"
             THEN /\ pc' = "messages"
                  /\ UNCHANGED <<result, error_records>>
             ELSE AdapterRaise("Run failed with status: " \o status)
       \/ AdapterRaise("run request failed")
    /\ UNCHANGED <<program, remote_files, remote_assistants, file, assistant>>
    /\ UNCHANGED <<extVars, batchRest, grobidVars, clsVars>>

\* lines 75-92: read the first message, parse it, set result['filename']
Messages ==
    /\ pc = "messages"
    /\ \/ \E r \in AssistantResponses :
             IF ~r.valid
             THEN /\ result' = ("filename" :> JStr(FileName(i))) @@ FallbackRecord(r.raw)
                  /\ UNCHANGED error_records
                  /\ pc' = "cleanup_file"
             ELSE IF r.json.t = "object"
             THEN /\ result' = ("filename" :> JStr(FileName(i))) @@ r.json.obj
                  /\ UNCHANGED error_records
                  /\ pc' = "cleanup_file"
             ELSE \* item assignment on a list, str, number or None: TypeError
                  AdapterRaise("TypeError")
       \/ AdapterRaise("no message")
    /\ UNCHANGED <<program, remote_files, remote_assistants, file, assistant>>
    /\ UNCHANGED <<extVars, batchRest, grobidVars, clsVars>>

\* line 97: client.files.delete(file.id)
CleanupFile ==
    /\ pc = "cleanup_file"
    /\ \E ok \in BOOLEAN :
          IF ok
          THEN /\ remote_files' = remote_files \ {file}
               /\ pc' = "cleanup_assistant"
               /\ UNCHANGED <<result, error_records>>
          ELSE /\ AdapterRaise("file deletion failed")
               /\ UNCHANGED remote_files
    /\ UNCHANGED <<program, remote_assistants, file, assistant>>
    /\ UNCHANGED <<extVars, batchRest, grobidVars, clsVars>>

\* lines 98-100: client.beta.assistants.delete(assistant.id); return result
CleanupAssistant ==
    /\ pc = "cleanup_assistant"
    /\ \E ok \in BOOLEAN :
          IF ok
          THEN /\ remote_assistants' = remote_assistants \ {assistant}
               /\ pc' = "pdf_content"
               /\ error_records' = error_records + (IF "error" \in DOMAIN result THEN 1 ELSE 0)
               /\ UNCHANGED result
          ELSE /\ AdapterRaise("assistant deletion failed")
               /\ UNCHANGED remote_assistants
    /\ UNCHANGED <<program, remote_files, file, assistant>>
    /\ UNCHANGED <<extVars, batchRest, grobidVars, clsVars>>

----------------------------------------------------------------------------
(* process_pdf_with_workflow *)

\* dict.get(key, default)
Get(d, key, default) == IF key \in DOMAIN d THEN d[key] ELSE default

\* PdfContent without the `if not full_text` short-circuit
PdfContent_NoShortCircuit ==
    /\ pc = "pdf_content"
    /\ IF "error" \in DOMAIN result
       THEN /\ pc' = "append"
            /\ UNCHANGED extVars
       ELSE /\ full_text' = Get(result, "full_text", JStr(""))
            /\ max_retries' = DefaultMaxRetries
            /\ retry_delay' = DefaultRetryDelay
            /\ attempt' = 0
            /\ pc' = "ext_prompt"
            /\ UNCHANGED <<ext_log, workflow_result>>
    /\ UNCHANGED <<program, adapterVars, batchVars, grobidVars, clsVars>>

\* lines 259-280: test the adapter's record, then short-circuit on a falsy
\* full_text or call the extractor with its default arguments
PdfContent ==
    /\ pc = "pdf_content"
    /\ IF "error" \in DOMAIN result
       THEN /\ pc' = "append"
            /\ UNCHANGED extVars
       ELSE LET ft == Get(result, "full_text", JStr(""))
            IN  IF ~Truthy(ft)
                THEN /\ workflow_result' = NoFullTextSentinel
                     /\ pc' = "combine"
                     /\ UNCHANGED <<full_text, max_retries, retry_delay, attempt, ext_log>>
                ELSE /\ full_text' = ft
                     /\ max_retries' = DefaultMaxRetries
                     /\ retry_delay' = DefaultRetryDelay
                     /\ attempt' = 0
                     /\ pc' = "ext_prompt"
                     /\ UNCHANGED <<ext_log, workflow_result>>
    /\ UNCHANGED <<program, adapterVars, batchVars, grobidVars, clsVars>>

\* lines 282-293: workflow_result.get(...), then merge the serialized workflow
Combine ==
    /\ pc = "combine"
    /\ IF workflow_result = NoValue
       THEN \* None has no attribute get
            /\ pc' = "crashed"
            /\ UNCHANGED result
       ELSE /\ result' = ("workflow_json" :> json_dumps(workflow_result)) @@ result
            /\ pc' = "append"
    /\ UNCHANGED <<program, remote_files, remote_assistants, file, assistant>>
    /\ UNCHANGED <<extVars, batchVars, grobidVars, clsVars>>

----------------------------------------------------------------------------
(* Output files *)

Absent == [exists |-> FALSE, writes |-> 0, columns |-> {}, rows |-> <<>>]

\* a CSV cell: a string is written as it is, a missing value as the empty cell
Cell(r, c) ==
    IF c \notin DOMAIN r THEN ""
    ELSE IF c = "workflow_json" THEN r[c]
    ELSE IF r[c].t = "str" THEN r[c].s
    ELSE r[c]

\* pd.DataFrame(records).to_csv(path, index=False) over the previous file
ToCsv(old, records) ==
    LET cols == UNION {DOMAIN records[k] : k \in 1..Len(records)}
    IN  [exists |-> TRUE,
         writes |-> old.writes + 1,
         columns |-> cols,
         rows |-> [k \in 1..Len(records) |-> [c \in cols |-> Cell(records[k], c)]]]

\* ToWorkflowsJson that lists the entries last to first
ToWorkflowsJson_Reversed(old, records) ==
    [exists |-> TRUE,
     writes |-> old.writes + 1,
     columns |-> {"filename", "title", "workflow"},
     rows |-> [k \in 1..Len(records) |->
                 [filename |-> records[Len(records) + 1 - k]["filename"],
                  title |-> Get(records[Len(records) + 1 - k], "title", JStr("")),
                  workflow |-> json_loads(records[Len(records) + 1 - k]["workflow_json"])]]]

\* lines 333-342: the workflows-only JSON file
ToWorkflowsJson(old, records) ==
    [exists |-> TRUE,
     writes |-> old.writes + 1,
     columns |-> {"filename", "title", "workflow"},
     rows |-> [k \in 1..Len(records) |->
                 [filename |-> records[k]["filename"],
                  title |-> Get(records[k], "title", JStr("")),
                  workflow |-> json_loads(records[k]["workflow_json"])]]]

----------------------------------------------------------------------------
(* batch_process_pdfs_with_workflows *)

Unset == [unset |-> TRUE]

\* line 308: the for statement; line 311 enters process_pdf_with_workflow and
\* extract_pdf_content with fresh locals
LoopNext ==
    /\ pc = "loop"
    /\ IF i < pdf_paths
       THEN /\ i' = i + 1
            /\ pc' = "upload"
            /\ file' = 0
            /\ assistant' = 0
            /\ result' = Unset
            /\ ext_log' = <<>>
            /\ workflow_result' = NoValue
            /\ attempt' = 0
       ELSE /\ pc' = "save"
            /\ UNCHANGED <<i, file, assistant, result, ext_log, workflow_result, attempt>>
    /\ UNCHANGED <<program, full_text, max_retries, retry_delay>>
    /\ UNCHANGED <<remote_files, remote_assistants>>
    /\ UNCHANGED <<pdf_paths, results, failed, sleeps, obtained, out_csv, out_workflows, out_failed>>
    /\ UNCHANGED error_records
    /\ UNCHANGED <<grobidVars, clsVars>>

\* AppendResult that files a record whose workflow extraction gave up as a failure
AppendResult_FailsOnSentinel ==
    /\ pc = "append"
    /\ IF "error" \notin DOMAIN result /\ workflow_result.notes_on_ambiguity.attempts = 0
       THEN /\ results' = Append(results, result)
            /\ obtained' = Append(obtained, workflow_result)
            /\ UNCHANGED failed
       ELSE /\ failed' = Append(failed, result)
            /\ UNCHANGED <<results, obtained>>
    /\ pc' = IF i < pdf_paths THEN "rate_sleep" ELSE "loop"
    /\ UNCHANGED <<program, pdf_paths, i, sleeps, out_csv, out_workflows, out_failed,
                   error_records>>
    /\ UNCHANGED <<extVars, adapterVars, grobidVars, clsVars>>

\* AppendResult without the `i < len(pdf_paths) - 1` test: sleeps after every item
AppendResult_SleepsAfterLast ==
    /\ pc = "append"
    /\ IF "error" \notin DOMAIN result
       THEN /\ results' = Append(results, result)
            /\ obtained' = Append(obtained, workflow_result)
            /\ UNCHANGED failed
       ELSE /\ failed' = Append(failed, result)
            /\ UNCHANGED <<results, obtained>>
    /\ pc' = "rate_sleep"
    /\ UNCHANGED <<program, pdf_paths, i, sleeps, out_csv, out_workflows, out_failed,
                   error_records>>
    /\ UNCHANGED <<extVars, adapterVars, grobidVars, clsVars>>

\* AppendResult that rewrites the failure file after every failed item
AppendResult_Checkpoints ==
    /\ pc = "append"
    /\ IF "error" \notin DOMAIN result
       THEN /\ results' = Append(results, result)
            /\ obtained' = Append(obtained, workflow_result)
            /\ UNCHANGED <<failed, out_failed>>
       ELSE /\ failed' = Append(failed, result)
            /\ out_failed' = ToCsv(out_failed, Append(failed, result))
            /\ UNCHANGED <<results, obtained>>
    /\ pc' = IF i < pdf_paths THEN "rate_sleep" ELSE "loop"
    /\ UNCHANGED <<program, pdf_paths, i, sleeps, out_csv, out_workflows, error_records>>
    /\ UNCHANGED <<extVars, adapterVars, grobidVars, clsVars>>

\* lines 313-321: file the record under results or failed
AppendResult ==
    /\ pc = "append"
    /\ IF "error" \notin DOMAIN result
       THEN /\ results' = Append(results, result)
            /\ obtained' = Append(obtained, workflow_result)
            /\ UNCHANGED failed
       ELSE /\ failed' = Append(failed, result)
            /\ UNCHANGED <<results, obtained>>
    /\ pc' = IF i < pdf_paths THEN "rate_sleep" ELSE "loop"
    /\ UNCHANGED <<program, pdf_paths, i, sleeps, out_csv, out_workflows, out_failed,
                   error_records>>
    /\ UNCHANGED <<extVars, adapterVars, grobidVars, clsVars>>

\* lines 322-323: time.sleep(1)
RateSleep ==
    /\ pc = "rate_sleep"
    /\ sleeps' = Append(sleeps, [after |-> i, d |-> InterItemSleep])
    /\ pc' = "loop"
    /\ UNCHANGED <<program, pdf_paths, i, results, failed, obtained, out_csv, out_workflows,
                   out_failed, error_records>>
    /\ UNCHANGED <<extVars, adapterVars, grobidVars, clsVars>>

\* Save without the `if failed:` guard
Save_AlwaysWritesFailed ==
    /\ pc = "save"
    /\ IF results # <<>>
       THEN /\ out_csv' = ToCsv(out_csv, results)
            /\ out_workflows' = ToWorkflowsJson(out_workflows, results)
       ELSE UNCHANGED <<out_csv, out_workflows>>
    /\ out_failed' = ToCsv(out_failed, failed)
    /\ pc' = "done"
    /\ UNCHANGED <<program, pdf_paths, i, results, failed, sleeps, obtained, error_records>>
    /\ UNCHANGED <<extVars, adapterVars, grobidVars, clsVars>>

\* lines 326-346: write the output files
Save ==
    /\ pc = "save"
    /\ IF results # <<>>
       THEN /\ out_csv' = ToCsv(out_csv, results)
            /\ out_workflows' = ToWorkflowsJson(out_workflows, results)
       ELSE UNCHANGED <<out_csv, out_workflows>>
    /\ IF failed # <<>>
       THEN out_failed' = ToCsv(out_failed, failed)
       ELSE UNCHANGED out_failed
    /\ pc' = "done"
    /\ UNCHANGED <<program, pdf_paths, i, results, failed, sleeps, obtained, error_records>>
    /\ UNCHANGED <<extVars, adapterVars, grobidVars, clsVars>>

----------------------------------------------------------------------------
(* pdf_content_extraction_grobid.py *)

\* what extract_with_grobid can return for the k-th file; `posted` tells
\* whether POST /api/processFulltextDocument was issued
GrobidOutcomes(k) ==
    {[posted |-> TRUE,
      record |-> ("filename" :> JStr(FileName(k))) @@ FullObject(JStr("body text"))],
     [posted |-> TRUE,
      record |-> [filename |-> JStr(FileName(k)), title |-> JStr("stem"),
                  authors |-> JStr(""), abstract |-> JStr(""), full_text |-> JStr(""),
                  figure_captions |-> JStr(""), table_captions |-> JStr("")]],
     [posted |-> TRUE, record |-> ErrorRecord(k, "GROBID returned status 500")],
     [posted |-> TRUE, record |-> ErrorRecord(k, "ParseError")],
     [posted |-> FALSE, record |-> ErrorRecord(k, "cannot open file")]}

\* GET /api/isalive: a status code, or the request raises
ProbeOutcomes == {"200", "non200", "raised"}

\* Probe that clears use_grobid only when the request raises
Probe_IgnoresStatus ==
    /\ pc = "probe"
    /\ \E o \in ProbeOutcomes :
          /\ probe_status' = o
          /\ use_grobid' = IF o = "raised" THEN FALSE ELSE use_grobid
    /\ probe_calls' = probe_calls + 1
    /\ pc' = "g_loop"
    /\ UNCHANGED <<program, grobid_calls>>
    /\ UNCHANGED <<extVars, adapterVars, batchVars, clsVars>>

\* main, lines 151-162: the liveness probe
Probe ==
    /\ pc = "probe"
    /\ \E o \in ProbeOutcomes :
          /\ probe_status' = o
          /\ use_grobid' = IF o = "200" THEN use_grobid ELSE FALSE
    /\ probe_calls' = probe_calls + 1
    /\ pc' = "g_loop"
    /\ UNCHANGED <<program, grobid_calls>>
    /\ UNCHANGED <<extVars, adapterVars, batchVars, clsVars>>

\* main, lines 181-188: file the record under results or failed
GrobidAppend(r) ==
    /\ IF "error" \notin DOMAIN r
       THEN /\ results' = Append(results, r)
            /\ UNCHANGED <<failed, error_records>>
       ELSE /\ failed' = Append(failed, r)
            /\ error_records' = error_records + 1
            /\ UNCHANGED results

\* main, lines 175-177 with use_grobid true: the next file goes to the service
GrobidNext ==
    /\ pc = "g_loop"
    /\ i < pdf_paths
    /\ use_grobid
    /\ i' = i + 1
    /\ pc' = "g_extract"
    /\ UNCHANGED <<program, pdf_paths, results, failed, sleeps, obtained, out_csv, out_workflows,
                   out_failed, error_records>>
    /\ UNCHANGED <<extVars, adapterVars, grobidVars, clsVars>>

\* extract_with_grobid (lines 18-135) and lines 181-188
GrobidExtract ==
    /\ pc = "g_extract"
    /\ \E o \in GrobidOutcomes(i) :
          /\ grobid_calls' = grobid_calls + (IF o.posted THEN 1 ELSE 0)
          /\ result' = o.record
          /\ GrobidAppend(o.record)
    /\ pc' = "g_loop"
    /\ UNCHANGED <<program, pdf_paths, i, sleeps, obtained, out_csv, out_workflows, out_failed>>
    /\ UNCHANGED <<use_grobid, probe_calls, probe_status>>
    /\ UNCHANGED <<remote_files, remote_assistants, file, assistant>>
    /\ UNCHANGED <<extVars, clsVars>>

\* main, lines 175-188 with use_grobid false: the record is made up locally
GrobidUnavailable ==
    /\ pc = "g_loop"
    /\ i < pdf_paths
    /\ ~use_grobid
    /\ i' = i + 1
    /\ result' = ErrorRecord(i + 1, "GROBID not available")
    /\ GrobidAppend(ErrorRecord(i + 1, "GROBID not available"))
    /\ pc' = "g_loop"
    /\ UNCHANGED <<program, pdf_paths, sleeps, obtained, out_csv, out_workflows, out_failed>>
    /\ UNCHANGED <<remote_files, remote_assistants, file, assistant>>
    /\ UNCHANGED <<extVars, grobidVars, clsVars>>

\* main line 191 and save_extracted_papers (lines 137-146)
GrobidSave ==
    /\ pc = "g_loop"
    /\ i = pdf_paths
    /\ out_csv' = ToCsv(out_csv, results)
    /\ IF failed # <<>>
       THEN out_failed' = ToCsv(out_failed, failed)
       ELSE UNCHANGED out_failed
    /\ pc' = "done"
    /\ UNCHANGED <<program, pdf_paths, i, results, failed, sleeps, obtained, out_workflows,
                   error_records>>
    /\ UNCHANGED <<extVars, adapterVars, grobidVars, clsVars>>

----------------------------------------------------------------------------
(* workflow_analysis.py *)

BoolFields == {"has_untargeted_metabolomics", "uses_ms", "uses_lcms", "uses_gcms",
               "uses_msms", "has_sample_prep", "has_extraction", "has_normalization",
               "uses_pca", "uses_plsda", "has_statistical_analysis",
               "has_pathway_analysis", "uses_kegg", "has_annotation"}
NumFields == {"num_workflow_steps", "num_tools_mentioned", "num_databases_mentioned",
              "workflow_completeness"}
StrFields == {"sample_type", "main_analytical_platform"}

\* a response following the workflow_analysis schema
Analysis(b, n, str) ==
    [f \in BoolFields \cup NumFields \cup StrFields |->
        IF f \in BoolFields THEN b ELSE IF f \in NumFields THEN n ELSE str]

\* lines 132-155: the default values returned on error
ErrorAnalysis(fname, e) ==
    ("filename" :> fname) @@ ("error" :> e) @@ Analysis(FALSE, 0, "error")

\* what client.chat.completions.create followed by json.loads can do
ClassifierOutcomes ==
    {[kind |-> "request_error", e |-> "APIError"],
     [kind |-> "parse_error", e |-> "JSONDecodeError"],
     [kind |-> "ok", parsed |-> Analysis(TRUE, 3, "LC-MS")],
     [kind |-> "ok", parsed |-> Analysis(FALSE, 1, "unspecified")]}

\* entries a *_workflows.json file may hold
AnalysisItems ==
    {[filename |-> "a.pdf", title |-> "T", workflow |-> Workflow(<<1, 2>>)],
     [title |-> "T", workflow |-> Workflow(<<>>)],
     [filename |-> "b.pdf", title |-> "T"]}

\* line 174: item.get('filename', f'unknown_{i}') for the k-th item (1-based)
ItemFilename(k) == Get(workflows[k], "filename", "unknown_" \o ToString(k - 1))

\* lines 191-217: the column order of the analysis CSV
column_order ==
    <<"filename", "has_untargeted_metabolomics", "uses_ms", "uses_lcms", "uses_gcms",
      "uses_msms", "main_analytical_platform", "sample_type", "has_sample_prep",
      "has_extraction", "has_normalization", "uses_pca", "uses_plsda",
      "has_statistical_analysis", "has_pathway_analysis", "uses_kegg", "has_annotation",
      "num_workflow_steps", "num_tools_mentioned", "num_databases_mentioned",
      "workflow_completeness">>

\* lines 173-177: the next item is handed to analyze_workflow_with_gpt
AnalysisNext ==
    /\ pc = "a_loop"
    /\ i < Len(workflows)
    /\ i' = i + 1
    /\ cls_calls' = 0
    /\ cls_outcome' = [kind |-> "none"]
    /\ cls_result' = Unset
    /\ pc' = "cls_call"
    /\ UNCHANGED <<program, workflows, pdf_paths, results, failed, sleeps, obtained, out_csv,
                   out_workflows, out_failed, error_records>>
    /\ UNCHANGED <<extVars, adapterVars, grobidVars>>

\* Analyze that repeats a failed request once before giving up
Analyze_Retries ==
    /\ pc = "cls_call"
    /\ \E o \in ClassifierOutcomes :
          IF o.kind # "ok" /\ cls_calls = 0
          THEN /\ pc' = "cls_call"
               /\ UNCHANGED <<cls_outcome, cls_result, results>>
          ELSE LET r == IF o.kind = "ok"
                        THEN ("filename" :> ItemFilename(i)) @@ o.parsed
                        ELSE ErrorAnalysis(ItemFilename(i), o.e)
               IN  /\ cls_outcome' = o
                   /\ cls_result' = r
                   /\ results' = Append(results, r)
                   /\ pc' = "a_loop"
    /\ cls_calls' = cls_calls + 1
    /\ UNCHANGED <<program, workflows, pdf_paths, i, failed, sleeps, obtained, out_csv,
                   out_workflows, out_failed, error_records>>
    /\ UNCHANGED <<extVars, adapterVars, grobidVars>>

\* analyze_workflow_with_gpt (lines 98-155) and lines 179-185
Analyze ==
    /\ pc = "cls_call"
    /\ \E o \in ClassifierOutcomes :
          LET r == IF o.kind = "ok"
                   THEN ("filename" :> ItemFilename(i)) @@ o.parsed
                   ELSE ErrorAnalysis(ItemFilename(i), o.e)
          IN  /\ cls_outcome' = o
              /\ cls_result' = r
              /\ results' = Append(results, r)
    /\ cls_calls' = cls_calls + 1
    /\ pc' = "a_loop"
    /\ UNCHANGED <<program, workflows, pdf_paths, i, failed, sleeps, obtained, out_csv,
                   out_workflows, out_failed, error_records>>
    /\ UNCHANGED <<extVars, adapterVars, grobidVars>>

\* lines 188-222: build the DataFrame, order its columns, write the CSV
AnalysisSave ==
    /\ pc = "a_loop"
    /\ i = Len(workflows)
    /\ IF results = <<>>
       THEN \* an empty DataFrame has none of the columns: df[column_order] raises KeyError
            /\ pc' = "crashed"
            /\ UNCHANGED out_csv
       ELSE LET hasError == \E k \in 1..Len(results) : "error" \in DOMAIN results[k]
                header == IF hasError THEN Append(column_order, "error") ELSE column_order
                cols == {header[k] : k \in 1..Len(header)}
            IN  /\ out_csv' =
                      [exists |-> TRUE,
                       writes |-> out_csv.writes + 1,
                       columns |-> cols,
                       header |-> header,
                       rows |-> [k \in 1..Len(results) |->
                                   [c \in cols |-> Get(results[k], c, "")]]]
                /\ pc' = "done"
    /\ UNCHANGED <<program, pdf_paths, i, results, failed, sleeps, obtained, out_workflows,
                   out_failed, error_records>>
    /\ UNCHANGED <<extVars, adapterVars, grobidVars, clsVars>>

----------------------------------------------------------------------------
(* pdf_content_extraction.py *)

\* what extract(pdf, recipe) can return for the k-th file
LayoutOutcomes(k) ==
    {[filename |-> JStr(FileName(k)), title |-> JStr("parsed title"),
      authors |-> JStr("A; B"), abstract |-> JStr("abstract"),
      full_text |-> JStr("symbols"), figure_captions |-> JStr(""),
      table_captions |-> JStr("")],
     [filename |-> JStr(FileName(k)), title |-> JStr("paper" \o ToString(k)),
      authors |-> JStr(""), abstract |-> JStr(""),
      full_text |-> JStr(""), figure_captions |-> JStr(""),
      table_captions |-> JStr("")],
     ErrorRecord(k, "recipe.run failed")}

\* main, line 131: the for statement takes the next path
LayoutNext ==
    /\ pc = "p_loop"
    /\ i < pdf_paths
    /\ i' = i + 1
    /\ pc' = "p_extract"
    /\ UNCHANGED <<program, pdf_paths, results, failed, sleeps, obtained, out_csv, out_workflows,
                   out_failed, error_records>>
    /\ UNCHANGED <<extVars, adapterVars, grobidVars, clsVars>>

\* LayoutExtract that puts a successful record at the head of the list
LayoutExtract_Prepends ==
    /\ pc = "p_extract"
    /\ \E r \in LayoutOutcomes(i) :
          /\ result' = r
          /\ IF "error" \notin DOMAIN r
             THEN /\ results' = <<r>> \o results
                  /\ UNCHANGED <<failed, error_records>>
             ELSE /\ failed' = Append(failed, r)
                  /\ error_records' = error_records + 1
                  /\ UNCHANGED results
    /\ pc' = "p_loop"
    /\ UNCHANGED <<program, pdf_paths, i, sleeps, obtained, out_csv, out_workflows, out_failed>>
    /\ UNCHANGED <<remote_files, remote_assistants, file, assistant>>
    /\ UNCHANGED <<extVars, grobidVars, clsVars>>

\* extract (lines 17-105) and main lines 132-140
LayoutExtract ==
    /\ pc = "p_extract"
    /\ \E r \in LayoutOutcomes(i) :
          /\ result' = r
          /\ IF "error" \notin DOMAIN r
             THEN /\ results' = Append(results, r)
                  /\ UNCHANGED <<failed, error_records>>
             ELSE /\ failed' = Append(failed, r)
                  /\ error_records' = error_records + 1
                  /\ UNCHANGED results
    /\ pc' = "p_loop"
    /\ UNCHANGED <<program, pdf_paths, i, sleeps, obtained, out_csv, out_workflows, out_failed>>
    /\ UNCHANGED <<remote_files, remote_assistants, file, assistant>>
    /\ UNCHANGED <<extVars, grobidVars, clsVars>>

\* main line 143 and save_extracted_papers (lines 107-116)
LayoutSave ==
    /\ pc = "p_loop"
    /\ i = pdf_paths
    /\ out_csv' = ToCsv(out_csv, results)
    /\ IF failed # <<>>
       THEN out_failed' = ToCsv(out_failed, failed)
       ELSE UNCHANGED out_failed
    /\ pc' = "done"
    /\ UNCHANGED <<program, pdf_paths, i, results, failed, sleeps, obtained, out_workflows,
                   error_records>>
    /\ UNCHANGED <<extVars, adapterVars, grobidVars, clsVars>>

----------------------------------------------------------------------------
(* Specifications *)

\* values of the variables an entry point does not use
IdleExt ==
    /\ full_text = JStr("")
    /\ max_retries = DefaultMaxRetries
    /\ retry_delay = DefaultRetryDelay
    /\ attempt = 0
    /\ ext_log = <<>>
    /\ workflow_result = NoValue

IdleAdapter ==
    /\ remote_files = {}
    /\ remote_assistants = {}
    /\ file = 0
    /\ assistant = 0
    /\ result = Unset

IdleBatch ==
    /\ i = 0
    /\ results = <<>>
    /\ failed = <<>>
    /\ sleeps = <<>>
    /\ obtained = <<>>
    /\ out_csv = Absent
    /\ out_workflows = Absent
    /\ out_failed = Absent
    /\ error_records = 0

IdleGrobid ==
    /\ use_grobid = TRUE
    /\ probe_calls = 0
    /\ grobid_calls = 0
    /\ probe_status = "none"

IdleCls ==
    /\ cls_calls = 0
    /\ cls_outcome = [kind |-> "none"]
    /\ cls_result = Unset
    /\ workflows = <<>>

\* batch_process_pdfs_with_workflows over 0..MaxFiles selected files
Init ==
    /\ program = "batch"
    /\ pc = "loop"
    /\ pdf_paths \in 0..MaxFiles
    /\ IdleExt /\ IdleAdapter /\ IdleBatch /\ IdleGrobid /\ IdleCls

Next ==
    \/ LoopNext
    \/ Upload
    \/ CreateAssistant
    \/ CreateThread
    \/ Run
    \/ Messages
    \/ CleanupFile
    \/ CleanupAssistant
    \/ PdfContent
    \/ ExtBuildPrompt
    \/ ExtCallOk
    \/ ExtCallFail
    \/ ExtSleep
    \/ Combine
    \/ AppendResult
    \/ RateSleep
    \/ Save

Spec == Init /\ [][Next]_vars

\* extract_workflow_from_full_text called on its own
RetryDelays == {1, DefaultRetryDelay}

InitExtract ==
    /\ program = "extract"
    /\ pc = "ext_prompt"
    /\ full_text \in {JStr("paper text"), JStr("")}
    /\ max_retries \in 0..MaxRetriesArg
    /\ retry_delay \in RetryDelays
    /\ attempt = 0
    /\ ext_log = <<>>
    /\ workflow_result = NoValue
    /\ pdf_paths = 0
    /\ IdleAdapter /\ IdleBatch /\ IdleGrobid /\ IdleCls

NextExtract ==
    \/ ExtBuildPrompt
    \/ ExtCallOk
    \/ ExtCallFail
    \/ ExtSleep

SpecExtract == InitExtract /\ [][NextExtract]_vars

\* pdf_content_extraction_grobid.main over 0..MaxGrobidFiles files
InitGrobid ==
    /\ program = "grobid"
    /\ use_grobid \in BOOLEAN
    /\ pc = IF use_grobid THEN "probe" ELSE "g_loop"
    /\ probe_calls = 0
    /\ grobid_calls = 0
    /\ probe_status = "none"
    /\ pdf_paths \in 0..MaxGrobidFiles
    /\ IdleExt /\ IdleAdapter /\ IdleBatch /\ IdleCls

NextGrobid ==
    \/ Probe
    \/ GrobidNext
    \/ GrobidExtract
    \/ GrobidUnavailable
    \/ GrobidSave

SpecGrobid == InitGrobid /\ [][NextGrobid]_vars

\* both batch drivers
InitDrivers == Init \/ InitGrobid

NextDrivers == Next \/ NextGrobid

SpecDrivers == InitDrivers /\ [][NextDrivers]_vars

\* pdf_content_extraction.main over 0..MaxLayoutFiles files
InitLayout ==
    /\ program = "layout"
    /\ pc = "p_loop"
    /\ pdf_paths \in 0..MaxLayoutFiles
    /\ IdleExt /\ IdleAdapter /\ IdleBatch /\ IdleGrobid /\ IdleCls

NextLayout ==
    \/ LayoutNext
    \/ LayoutExtract
    \/ LayoutSave

\* the three drivers that keep a success list and a failure list
InitAccumulators == Init \/ InitGrobid \/ InitLayout

NextAccumulators == Next \/ NextGrobid \/ NextLayout

SpecAccumulators == InitAccumulators /\ [][NextAccumulators]_vars

RECURSIVE SeqsUpTo(_, _)
\* all sequences over S of length at most n
SeqsUpTo(S, n) ==
    IF n = 0 THEN {<<>>}
    ELSE LET shorter == SeqsUpTo(S, n - 1)
         IN  shorter \cup {Append(q, x) : q \in shorter, x \in S}

\* analyze_workflows_from_json over a file of 0..MaxWorkflows entries
InitAnalysis ==
    /\ program = "analysis"
    /\ pc = "a_loop"
    /\ workflows \in SeqsUpTo(AnalysisItems, MaxWorkflows)
    /\ cls_calls = 0
    /\ cls_outcome = [kind |-> "none"]
    /\ cls_result = Unset
    /\ pdf_paths = 0
    /\ IdleExt /\ IdleAdapter /\ IdleBatch /\ IdleGrobid

NextAnalysis ==
    \/ AnalysisNext
    \/ Analyze
    \/ AnalysisSave

SpecAnalysis == InitAnalysis /\ [][NextAnalysis]_vars

----------------------------------------------------------------------------
(* Properties *)

CallIndexes == {k \in 1..Len(ext_log) : ext_log[k].ev = "call"}
SleepIndexes == {k \in 1..Len(ext_log) : ext_log[k].ev = "sleep"}
AllCallsFailed == \A k \in CallIndexes : ~ext_log[k].ok
ExtractReturned == program = "extract" /\ pc = "done"

\* C1: with max_retries >= 1 and a service that fails every call, the
\* extractor makes exactly max_retries calls and max_retries - 1 sleeps of
\* retry_delay, every sleep lying between two consecutive attempts and none
\* after the last, and returns the sentinel naming max_retries attempts.
C1_ExhaustedRetries ==
    (ExtractReturned /\ max_retries >= 1 /\ AllCallsFailed) =>
        /\ Cardinality(CallIndexes) = max_retries
        /\ Cardinality(SleepIndexes) = max_retries - 1
        /\ Len(ext_log) = 2 * max_retries - 1
        /\ \A k \in 1..Len(ext_log) :
              /\ ext_log[k].ev = (IF k % 2 = 1 THEN "call" ELSE "sleep")
              /\ ext_log[k].attempt = (k + 1) \div 2
              /\ ext_log[k].ev = "sleep" => ext_log[k].d = retry_delay
        /\ workflow_result # NoValue
        /\ workflow_result.paper_has_untargeted_metabolomics = FALSE
        /\ workflow_result.workflow_steps = <<>>
        /\ workflow_result.unspecified_or_omitted_steps = <<>>
        /\ workflow_result.notes_on_ambiguity.attempts = max_retries

C1_Witness ==
    /\ ExtractReturned
    /\ max_retries = 3
    /\ AllCallsFailed
    /\ Len(ext_log) = 5

AdapterReturned == program = "batch" /\ pc = "pdf_content"

\* C2: when the cloud-assistant adapter has returned, the file it uploaded
\* and the assistant it created have been deleted.
C2_CleanupOnEveryExit ==
    AdapterReturned =>
        /\ file # 0 => file \notin remote_files
        /\ assistant # 0 => assistant \notin remote_assistants

RunFinished == program \in {"batch", "grobid"} /\ pc = "done"

C4_NoExceptionEscapes == program = "batch" => pc # "crashed"

ProbeFailed == program = "grobid" /\ probe_calls > 0 /\ probe_status # "200"

\* C5: when the liveness probe answers non-200 or raises, every file gets the
\* record {filename, error: "GROBID not available"} in the failure list, no
\* extraction request is issued, and the probe is issued exactly once, before
\* the first file.
C5_ProbeFailure ==
    /\ program = "grobid" => probe_calls <= 1
    /\ (program = "grobid" /\ pc = "probe") => i = 0
    /\ ProbeFailed =>
          /\ probe_calls = 1
          /\ grobid_calls = 0
          /\ results = <<>>
          /\ Len(failed) = i
          /\ \A k \in 1..Len(failed) :
                /\ DOMAIN failed[k] = {"filename", "error"}
                /\ failed[k]["filename"] = JStr(FileName(k))
                /\ failed[k]["error"] = JStr("GROBID not available")
          /\ pc = "done" => Len(failed) = pdf_paths

C5_Witness ==
    /\ ProbeFailed
    /\ pc = "done"
    /\ probe_status = "non200"
    /\ Len(failed) = 2

EmptyText == Get(result, "full_text", JStr("")) = JStr("")

WorkflowKeys == {"paper_has_untargeted_metabolomics", "workflow_steps",
                 "unspecified_or_omitted_steps", "notes_on_ambiguity"}

\* C7: for every max_retries >= 0 the extractor returns a value: the parsed
\* response or the sentinel with its four fields, never nothing.
C7_AlwaysReturnsDescription ==
    ExtractReturned =>
        /\ workflow_result # NoValue
        /\ WorkflowKeys \subseteq DOMAIN workflow_result

\* C8: a record in the failure list has only filename and error, and a
\* record in the success list has no error field.
C8_ErrorExcludesContent ==
    program = "batch" =>
        /\ \A k \in 1..Len(failed) : DOMAIN failed[k] = {"filename", "error"}
        /\ \A k \in 1..Len(results) : "error" \notin DOMAIN results[k]

StepNumbers(w) == [k \in 1..Len(w.workflow_steps) |-> w.workflow_steps[k].step_number]
StrictlyIncreasing(ns) == \A a, b \in 1..Len(ns) : a < b => ns[a] < ns[b]

\* C9 as stated: a returned description has unique, strictly increasing
\* step_number values or empty workflow_steps.
C9_Original ==
    (ExtractReturned /\ workflow_result # NoValue) =>
        \/ workflow_result.workflow_steps = <<>>
        \/ StrictlyIncreasing(StepNumbers(workflow_result))

LastEvent == ext_log[Len(ext_log)]

\* C9 (amended): a returned description is the parsed response of the last
\* call unchanged, so its step_number values are those of the service in the
\* service's order (strictly increasing exactly when the service's are), or
\* it is the sentinel with empty workflow_steps.
C9_Amended ==
    (ExtractReturned /\ workflow_result # NoValue) =>
        /\ ext_log # <<>>
        /\ LastEvent.ev = "call"
        /\ IF LastEvent.ok
           THEN /\ workflow_result = LastEvent.resp
                /\ StepNumbers(workflow_result) = StepNumbers(LastEvent.resp)
                /\ StrictlyIncreasing(StepNumbers(workflow_result))
                      <=> StrictlyIncreasing(StepNumbers(LastEvent.resp))
           ELSE /\ workflow_result.workflow_steps = <<>>
                /\ workflow_result.paper_has_untargeted_metabolomics = FALSE

C9_Witness ==
    /\ ExtractReturned
    /\ attempt = 2
    /\ workflow_result # NoValue
    /\ StepNumbers(workflow_result) = <<1, 2>>

ClassifierReturned == program = "analysis" /\ pc = "a_loop" /\ i > 0

\* C10: a call of the classifier issues at most one request and never
\* retries; on an exception it returns the all-default record (booleans
\* false, numbers 0, strings "error") with the given filename and the
\* exception message under error; on success the record carries the given
\* filename and no error field.
C10_ClassifierSingleShot ==
    /\ program = "analysis" => cls_calls <= 1
    /\ ClassifierReturned =>
          /\ cls_calls = 1
          /\ cls_result["filename"] = ItemFilename(i)
          /\ IF cls_outcome.kind = "ok"
             THEN /\ "error" \notin DOMAIN cls_result
                  /\ \A f \in DOMAIN cls_outcome.parsed :
                        f # "filename" => cls_result[f] = cls_outcome.parsed[f]
             ELSE /\ DOMAIN cls_result =
                        BoolFields \cup NumFields \cup StrFields \cup {"filename", "error"}
                  /\ \A f \in BoolFields : cls_result[f] = FALSE
                  /\ \A f \in NumFields : cls_result[f] = 0
                  /\ \A f \in StrFields : cls_result[f] = "error"
                  /\ cls_result["error"] = cls_outcome.e

C10_Witness ==
    /\ ClassifierReturned
    /\ cls_outcome.kind = "request_error"
    /\ i = 2
    /\ "error" \notin DOMAIN results[1]

\* the file of the current iteration has been filed under results or failed
ItemFiled == program = "batch" /\ pc \in {"rate_sleep", "loop"} /\ i > 0
RetriesExhausted == Cardinality(CallIndexes) = DefaultMaxRetries /\ AllCallsFailed

\* C11: a file whose adapter call succeeded but whose workflow extraction
\* exhausted its retries is appended to the success list, not the failure
\* list, with workflow_json holding the sentinel, and the batch goes on.
C11_ExhaustedIsSuccess ==
    (ItemFiled /\ RetriesExhausted) =>
        /\ results # <<>>
        /\ results[Len(results)]["filename"] = JStr(FileName(i))
        /\ "error" \notin DOMAIN results[Len(results)]
        /\ \E o \in ServiceOutcomes :
              /\ o.kind # "ok"
              /\ results[Len(results)]["workflow_json"] =
                    json_dumps(ExhaustedSentinel(DefaultMaxRetries, o.e))
        /\ json_loads(results[Len(results)]["workflow_json"]).workflow_steps = <<>>
        /\ \A k \in 1..Len(failed) : failed[k]["filename"] # JStr(FileName(i))
        /\ Len(results) + Len(failed) = i

C11_Witness ==
    /\ ItemFiled
    /\ RetriesExhausted
    /\ i = 1
    /\ pdf_paths = 2
    /\ pc = "rate_sleep"

BatchFinished == program = "batch" /\ pc = "done"

\* the entries of <name>_workflows.json follow the success list
WorkflowEntriesMatch ==
    /\ Len(out_workflows.rows) = Len(results)
    /\ \A k \in 1..Len(out_workflows.rows) :
          /\ DOMAIN out_workflows.rows[k] = {"filename", "title", "workflow"}
          /\ out_workflows.rows[k]["filename"] = results[k]["filename"]
          /\ out_workflows.rows[k]["title"] = Get(results[k], "title", JStr(""))
          /\ out_workflows.rows[k]["workflow"] = obtained[k]

SleepsDue ==
    IF i = 0 THEN 0
    ELSE IF pc = "loop" /\ i < pdf_paths THEN i
    ELSE i - 1

\* C13: the driver sleeps once between two consecutive items, after the
\* earlier one has been appended and before the later one starts, never
\* after the last item, whether items succeed or fail: max(N-1, 0) sleeps
\* for a batch of N files.
C13_InterItemSleeps ==
    program = "batch" =>
        /\ Len(sleeps) = SleepsDue
        /\ \A k \in 1..Len(sleeps) :
              /\ sleeps[k].after = k
              /\ sleeps[k].after < pdf_paths
              /\ sleeps[k].d = InterItemSleep
        /\ pc = "rate_sleep" => Len(results) + Len(failed) = i
        /\ pc = "done" => Len(sleeps) = (IF pdf_paths > 0 THEN pdf_paths - 1 ELSE 0)

C13_Witness ==
    /\ BatchFinished
    /\ pdf_paths = 2
    /\ Len(sleeps) = 1
    /\ Len(failed) = 1
    /\ Len(results) = 1

\* a file that exists was written once, after every item was processed
WrittenAtEnd(f) ==
    /\ f.writes <= 1
    /\ f.exists =>
          /\ f.writes = 1
          /\ pc = "done"
          /\ i = pdf_paths
          /\ Len(results) + Len(failed) = pdf_paths

\* C14: in both batch drivers the .csv, _workflows.json and _failed.csv files
\* are written only after the last item has been processed, never while an
\* item is still unprocessed, and each at most once per run.
C14_FilesWrittenOnceAtEnd ==
    program \in {"batch", "grobid"} =>
        /\ WrittenAtEnd(out_csv)
        /\ WrittenAtEnd(out_workflows)
        /\ WrittenAtEnd(out_failed)
        /\ (pc # "done") =>
              out_csv = Absent /\ out_workflows = Absent /\ out_failed = Absent

C14_Witness ==
    /\ BatchFinished
    /\ pdf_paths = 2
    /\ out_csv.writes = 1
    /\ out_workflows.writes = 1
    /\ out_failed.writes = 1

OkIndexes == {k \in CallIndexes : ext_log[k].ok}

\* C16: when the service fails on attempts 1..k-1 and succeeds on attempt k
\* (1 <= k <= max_retries), exactly k calls and k-1 sleeps are made, every
\* sleep lies between a failed attempt and the next attempt, the parsed
\* response of attempt k is returned, and nothing follows the success.
C16_SuccessOnAttemptK ==
    (program = "extract" /\ OkIndexes # {}) =>
        LET k == ext_log[Len(ext_log)].attempt
        IN  /\ OkIndexes = {Len(ext_log)}
            /\ pc = "done"
            /\ attempt = k
            /\ 1 <= k /\ k <= max_retries
            /\ Cardinality(CallIndexes) = k
            /\ Cardinality(SleepIndexes) = k - 1
            /\ \A m \in SleepIndexes :
                  /\ 1 < m /\ m < Len(ext_log)
                  /\ ext_log[m - 1].ev = "call" /\ ~ext_log[m - 1].ok
                  /\ ext_log[m + 1].ev = "call"
                  /\ ext_log[m + 1].attempt = ext_log[m - 1].attempt + 1
                  /\ ext_log[m].d = retry_delay
            /\ \A m \in CallIndexes : ext_log[m].attempt = Cardinality({j \in CallIndexes : j <= m})
            /\ workflow_result = ext_log[Len(ext_log)].resp

C16_Witness ==
    /\ ExtractReturned
    /\ max_retries = 3
    /\ OkIndexes # {}
    /\ attempt = 2
    /\ Len(ext_log) = 3
    /\ workflow_result.workflow_steps # <<>>

\* files whose record has been filed; an item being worked on is not counted
Processed ==
    IF pc \in {"loop", "rate_sleep", "save", "done", "probe", "g_loop", "p_loop"}
    THEN i
    ELSE i - 1

\* entries of list xs that belong to the k-th file
EntriesOf(xs, k) == {j \in 1..Len(xs) : xs[j]["filename"] = JStr(FileName(k))}

\* position in pdf_paths of the file an entry belongs to
FileIndex(rec) == CHOOSE k \in 1..pdf_paths : rec["filename"] = JStr(FileName(k))

InProcessingOrder(xs) ==
    \A a, b \in 1..Len(xs) : a < b => FileIndex(xs[a]) < FileIndex(xs[b])

\* xs is an initial part of ys
IsPrefix(xs, ys) == Len(xs) <= Len(ys) /\ SubSeq(ys, 1, Len(xs)) = xs

AccumulatorState ==
    program \in {"batch", "grobid", "layout"} =>
        /\ Len(results) + Len(failed) = Processed
        /\ \A k \in 1..Processed :
              Cardinality(EntriesOf(results, k)) + Cardinality(EntriesOf(failed, k)) = 1
        /\ \A k \in (Processed + 1)..pdf_paths :
              EntriesOf(results, k) = {} /\ EntriesOf(failed, k) = {}
        /\ InProcessingOrder(results)
        /\ InProcessingOrder(failed)

AccumulatorStep ==
    /\ IsPrefix(results, results')
    /\ IsPrefix(failed, failed')
    /\ Len(results') + Len(failed') <= Len(results) + Len(failed) + 1

\* C17: at every point of a driver's loop the success and failure lists
\* together hold one entry for each file processed so far, every processed
\* file is in exactly one list exactly once, both lists are in processing
\* order, and a step only appends: entries are never removed, reordered or
\* changed.
C17_AccumulatorInvariant == []AccumulatorState /\ [][AccumulatorStep]_vars

C17_Witness ==
    /\ program = "layout"
    /\ pc = "p_loop"
    /\ i = 3
    /\ Len(results) = 2
    /\ Len(failed) = 1
    /\ failed[1]["filename"] = JStr(FileName(2))

\* the record built at lines 83-92 from a message that json.loads rejects
IsFallback(rec) ==
    \E r \in AssistantResponses :
        /\ ~r.valid
        /\ rec = ("filename" :> JStr(FileName(i))) @@ FallbackRecord(r.raw)

\* the adapter has read a message that is not JSON and has still to return
HoldsFallback ==
    /\ program = "batch"
    /\ pc \in {"cleanup_file", "cleanup_assistant"}
    /\ IsFallback(result)

\* C18: after a completed run whose first message is not valid JSON the
\* adapter returns the fallback record (no error field, full_text the raw
\* text, the other five content fields empty, filename the input file's
\* name), and the batch driver files that record in the success list.
C18_FallbackIsSuccess ==
    /\ [][HoldsFallback =>
            /\ result' = result
            /\ pc' \in {"cleanup_assistant", "pdf_content"}]_vars
    /\ [][(HoldsFallback /\ pc' = "pdf_content") =>
            /\ "error" \notin DOMAIN result'
            /\ result'["filename"] = JStr(FileName(i))
            /\ result'["full_text"].t = "str"
            /\ \A c \in ContentKeys \ {"full_text"} : result'[c] = JStr("")]_vars
    /\ [][(program = "batch" /\ pc = "append" /\ "error" \notin DOMAIN result) =>
            /\ results' = Append(results, result)
            /\ failed' = failed]_vars

\* some classification of the pass came back as the error record
SomeClassificationFailed == \E k \in 1..Len(results) : "error" \in DOMAIN results[k]

\* C19: for every list of M >= 0 workflow items the analysis pass calls the
\* classifier once per item in input order, terminates, and writes one CSV
\* of exactly M rows in input order with the 21 fixed columns, followed by
\* an error column iff some classification failed.
C19_AnalysisWritesCsv ==
    program = "analysis" =>
        /\ pc # "crashed"
        /\ pc = "a_loop" => Len(results) = i
        /\ (pc = "a_loop" /\ i > 0) => cls_calls = 1
        /\ \A k \in 1..Len(results) : results[k]["filename"] = ItemFilename(k)
        /\ pc = "done" =>
              /\ out_csv.exists
              /\ out_csv.writes = 1
              /\ Len(out_csv.rows) = Len(workflows)
              /\ Len(column_order) = 21
              /\ out_csv.header = (IF SomeClassificationFailed
                                   THEN Append(column_order, "error")
                                   ELSE column_order)
              /\ \A k \in 1..Len(out_csv.rows) :
                    out_csv.rows[k]["filename"] = ItemFilename(k)

====
